---- MODULE Spec2Model ----
(***************************************************************************)
(* AutoEncoderCV of docs/notebooks/tutorials/adv_newcv_scratch.ipynb:      *)
(* construction (option parsing, block initialisation), the two forward    *)
(* paths (forward_cv, encode_decode) and the training_step callback.       *)
(*                                                                         *)
(* Python values are modelled as follows.                                  *)
(*   - a tensor is a residue in Tensor; every block is a deterministic,    *)
(*     non-identity map on Tensor, so that the order and the presence of   *)
(*     a stage are visible in the value;                                   *)
(*   - None / False / a dict of keyword arguments is a record [tag, kw],   *)
(*     kw being the set of <<name, value>> pairs of the dict;              *)
(*   - a dict with string keys is a function on the set of its keys;       *)
(*   - a raised exception is the name of its class in the variable err.    *)
(* The classes the notebook imports from the library (BaseCV, FeedForward, *)
(* Normalization, MSELoss) are not part of the notebook; they are modelled *)
(* from their description in the notebook and in the specification.        *)
(***************************************************************************)
EXTENDS Integers, Sequences, FiniteSets, TLC

(* ------------------------------ bounds --------------------------------- *)

\* longest encoder_layers list given to the constructor
MaxLayers == 3

\* largest number of entries of an options dict given to the constructor
MaxEntries == 2

\* longest encoder_layers list of a model that is then called (run)
MaxRunLayers == 2

\* per-sample weights of a batch (never 1, so a weighted loss differs from a plain one)
Weights == {2}

\* layer widths
Widths == {1, 2}

\* abstract tensor contents
Tensor == {0, 1, 2}

\* the tensors a caller hands in (as data, as target, as the input of a forward call)
Samples == {0, 1}

Modulus == Cardinality(Tensor)

(* ------------------------- Python values ------------------------------- *)

NoneV == [tag |-> "None", kw |-> {}]

FalseV == [tag |-> "False", kw |-> {}]

DictV(kw) == [tag |-> "dict", kw |-> kw]

EmptyDict == [k \in {} |-> NoneV]

NoOptions == [tag |-> "None", d |-> EmptyDict]

OptionsDict(d) == [tag |-> "dict", d |-> d]

NoLayers == [tag |-> "None", v |-> <<>>]

LayerList(v) == [tag |-> "list", v |-> v]

\* a role that is bound to no sub-module (the attribute is None)
Unbound == [kind |-> "None", in_features |-> 0, layers |-> <<>>, kwargs |-> {}]

RECURSIVE SumSeq(_)
SumSeq(s) == IF s = <<>> THEN 0 ELSE Head(s) + SumSeq(Tail(s))

\* s[::-1]
Reversed(s) == [i \in 1..Len(s) |-> s[Len(s) + 1 - i]]

(* -------------------- the class and its collaborators ------------------ *)

BLOCKS == <<"norm_in", "encoder", "decoder">>

BlockNames == {BLOCKS[i] : i \in DOMAIN BLOCKS}

\* the keys parse_options accepts: the blocks of the class and the optimizer
AllowedKeys == BlockNames \cup {"optimizer"}

\* the keyword arguments each entry may carry (those the notebook uses)
KnownOptions(key) ==
    CASE key \in {"encoder", "decoder"} -> {"activation"}
      [] key = "optimizer" -> {"lr"}
      [] OTHER -> {}

\* BaseCV.parse_options: defaults for the missing blocks, rejection of
\* unknown block names and unknown option names
parse_options(options) ==
    LET d0 == IF options.tag = "None" THEN EmptyDict ELSE options.d
        bad == \E k \in DOMAIN d0 :
                   \/ k \notin AllowedKeys
                   \/ /\ d0[k].tag = "dict"
                      /\ \E p \in d0[k].kw : p[1] \notin KnownOptions(k)
    IN  [err |-> IF bad THEN "ConfigurationError" ELSE "none",
         options |-> [k \in (DOMAIN d0) \cup BlockNames |->
                         IF k \in DOMAIN d0 THEN d0[k] ELSE DictV({})]]

\* BaseCV.__init__: feature counts, every block of BLOCKS unbound,
\* pre/post-processing from the keyword arguments, training mode on
BaseCV_init(in_features, out_features, kwargs) ==
    [in_features |-> in_features,
     out_features |-> out_features,
     preprocessing |-> kwargs.preprocessing,
     postprocessing |-> kwargs.postprocessing,
     norm_in |-> Unbound,
     encoder |-> Unbound,
     decoder |-> Unbound,
     loss_fn |-> "None",
     training |-> TRUE]

\* Normalization(in_features, **kw)
Normalization(in_features, kw) ==
    [kind |-> "Normalization", in_features |-> in_features,
     layers |-> <<>>, kwargs |-> kw]

\* FeedForward(layers, **kw)
FeedForward(layers, kw) ==
    [kind |-> "FeedForward", in_features |-> 0, layers |-> layers, kwargs |-> kw]

\* the shift of a normalizer: never 0, so the normalizer is not the identity
NormShift(block) == 1 + (block.in_features % (Modulus - 1))

\* Normalization.forward
NormalizationForward(block, x) == (x + NormShift(block)) % Modulus

\* Normalization.inverse
NormalizationInverse(block, x) == (x + Modulus - NormShift(block)) % Modulus

\* FeedForward.forward: an affine map fixed by the widths and the options
FeedForwardForward(block, x) ==
    (2 * x + 1 + SumSeq(block.layers) + Cardinality(block.kwargs)) % Modulus

\* the pre- and post-processing modules of BaseCV, when set
PreprocessingForward(x) == (2 * x) % Modulus

PostprocessingForward(x) == (x + 1) % Modulus

\* MSELoss()(x_hat, x_ref, **loss_kwargs)
MSELoss(x_hat, x_ref, loss_kwargs) ==
    LET w == IF "weights" \in DOMAIN loss_kwargs THEN loss_kwargs["weights"] ELSE 1
    IN  w * (x_hat - x_ref) * (x_hat - x_ref)

(* ---------------------------- construction ---------------------------- *)

NoKwargs == [preprocessing |-> "None", postprocessing |-> "None"]

\* the value of model while no instance exists
NoModel == BaseCV_init(0, 0, NoKwargs)

\* an exception leaving __init__: no instance is returned; built lists the
\* sub-modules constructed before it
Raised(e, built_) == [err |-> e, built |-> built_, self |-> NoModel]

\* a slip: the default decoder copies the encoder widths without reversing them
resolve_decoder_layers_unreversed(encoder_layers, decoder_layers) ==
    IF decoder_layers.tag = "None" THEN encoder_layers ELSE decoder_layers.v

\* if decoder_layers is None: decoder_layers = encoder_layers[::-1]
resolve_decoder_layers(encoder_layers, decoder_layers) ==
    IF decoder_layers.tag = "None" THEN Reversed(encoder_layers) ELSE decoder_layers.v

\* a slip: the entry is tested for truth ("if options[o]:"), so an empty dict disables
block_enabled_if_truthy(o) == o.tag = "dict" /\ o.kw # {}

\* a slip: only None is tested, so False still builds the block
block_enabled_unless_None(o) == o.tag # "None"

\* ( options[o] is not False ) and ( options[o] is not None )
block_enabled(o) == (o.tag # "False") /\ (o.tag # "None")

\* **options[o]: only a mapping can be unpacked into keyword arguments
unpackable(o) == o.tag = "dict"

\* a slip: every sub-configuration of options is unpacked into the block
kwargs_of_all(options, o) == UNION {options[k].kw : k \in DOMAIN options}

\* **options[o]: the keyword arguments a block is constructed with
kwargs_of(options, o) == options[o].kw

\* the BLOCKS part of __init__: norm_in (when enabled), encoder, decoder,
\* in this order; unpacking None or False raises TypeError
init_blocks(self, encoder_layers, decoder_layers, options) ==
    LET withNorm == block_enabled(options["norm_in"])
        self1 == IF withNorm
                 THEN [self EXCEPT !.norm_in =
                          Normalization(self.in_features, kwargs_of(options, "norm_in"))]
                 ELSE self
        built1 == IF withNorm THEN <<"norm_in">> ELSE <<>>
    IN  IF ~unpackable(options["encoder"]) THEN Raised("TypeError", built1)
        ELSE LET self2 == [self1 EXCEPT !.encoder =
                              FeedForward(encoder_layers, kwargs_of(options, "encoder"))]
                 built2 == Append(built1, "encoder")
             IN  IF ~unpackable(options["decoder"]) THEN Raised("TypeError", built2)
                 ELSE [err |-> "none",
                       built |-> Append(built2, "decoder"),
                       self |-> [self2 EXCEPT !.decoder =
                                    FeedForward(decoder_layers, kwargs_of(options, "decoder"))]]

\* AutoEncoderCV.__init__(encoder_layers, decoder_layers, options, **kwargs)
AutoEncoderCV_init(encoder_layers, decoder_layers, options, kwargs) ==
    IF Len(encoder_layers) = 0
    THEN Raised("IndexError", <<>>)        \* encoder_layers[0] of an empty list
    ELSE LET self0 == BaseCV_init(encoder_layers[1],
                                  encoder_layers[Len(encoder_layers)], kwargs)
             parsed == parse_options(options)
         IN  IF parsed.err # "none" THEN Raised(parsed.err, <<>>)
             ELSE init_blocks([self0 EXCEPT !.loss_fn = "MSELoss"],
                              encoder_layers,
                              resolve_decoder_layers(encoder_layers, decoder_layers),
                              parsed.options)

(* ---------------------------- forward paths ---------------------------- *)

\* a tensor on its way through the model: its value and the stages applied
Input(x) == [val |-> x, trace |-> <<>>]

Stage(x, name, v) == [val |-> v, trace |-> Append(x.trace, name)]

\* AutoEncoderCV.forward_cv
forward_cv(self, x) ==
    LET x1 == IF self.norm_in # Unbound
              THEN Stage(x, "norm_in", NormalizationForward(self.norm_in, x.val))
              ELSE x
    IN  Stage(x1, "encoder", FeedForwardForward(self.encoder, x1.val))

\* BaseCV.forward: forward_cv between the pre- and post-processing, if set
forward(self, x) ==
    LET x1 == IF self.preprocessing # "None"
              THEN Stage(x, "preprocessing", PreprocessingForward(x.val))
              ELSE x
        x2 == forward_cv(self, x1)
    IN  IF self.postprocessing # "None"
        THEN Stage(x2, "postprocessing", PostprocessingForward(x2.val))
        ELSE x2

\* a slip: the latent value is taken from forward_cv, past the pre- and post-processing
encode_decode_via_forward_cv(self, x) ==
    LET x1 == forward_cv(self, x)
        x2 == Stage(x1, "decoder", FeedForwardForward(self.decoder, x1.val))
    IN  IF self.norm_in # Unbound
        THEN Stage(x2, "norm_in.inverse", NormalizationInverse(self.norm_in, x2.val))
        ELSE x2

\* a slip: the normalization is reverted before the decoder is applied
encode_decode_inverse_first(self, x) ==
    LET x1 == forward(self, x)
        x2 == IF self.norm_in # Unbound
              THEN Stage(x1, "norm_in.inverse", NormalizationInverse(self.norm_in, x1.val))
              ELSE x1
    IN  Stage(x2, "decoder", FeedForwardForward(self.decoder, x2.val))

\* AutoEncoderCV.encode_decode
encode_decode(self, x) ==
    LET x1 == forward(self, x)
        x2 == Stage(x1, "decoder", FeedForwardForward(self.decoder, x1.val))
    IN  IF self.norm_in # Unbound
        THEN Stage(x2, "norm_in.inverse", NormalizationInverse(self.norm_in, x2.val))
        ELSE x2

(* ---------------------------- training step ---------------------------- *)

BatchKeys == {"data", "weights", "target"}

EmptyBatch == [k \in {} |-> 0]

\* a slip: the weights of the batch are never handed to the loss
get_loss_kwargs_dropped(train_batch) == EmptyBatch

\* loss_kwargs = {}; if 'weights' in train_batch: loss_kwargs['weights'] = ...
get_loss_kwargs(train_batch) ==
    IF "weights" \in DOMAIN train_batch
    THEN [k \in {"weights"} |-> train_batch["weights"]]
    ELSE EmptyBatch

\* a slip: the reference is always the input
get_x_ref_always_data(train_batch, x) == x

\* x_ref = train_batch['target'] if 'target' in train_batch else x
get_x_ref(train_batch, x) ==
    IF "target" \in DOMAIN train_batch THEN train_batch["target"] ELSE x

\* a slip: the two names are swapped
metric_name_swapped(training_) == IF training_ THEN "valid_loss" ELSE "train_loss"

\* name = 'train' if self.training else 'valid'; f'{name}_loss'
metric_name(training_) == IF training_ THEN "train_loss" ELSE "valid_loss"

\* the record of one call: what it read, what it passed on, what it gave back
NoCall ==
    [op |-> "none", err |-> "none", batch |-> EmptyBatch, x |-> 0, x_hat |-> 0,
     x_ref |-> 0, loss_kwargs |-> EmptyBatch, loss |-> 0, emitted |-> <<>>,
     returned |-> FALSE, ret |-> 0, trace |-> <<>>, training |-> TRUE]

has_data(train_batch) == "data" \in DOMAIN train_batch

\* a slip: the missing key is caught and a zero loss is logged for the batch
missing_data_logged(self, train_batch) ==
    [NoCall EXCEPT !.op = "training_step", !.err = "KeyError", !.batch = train_batch,
                   !.emitted = <<[name |-> metric_name(self.training), value |-> 0]>>,
                   !.training = self.training]

\* x = train_batch['data'] of a batch without the key: KeyError leaves the
\* function at its first statement
missing_data(self, train_batch) ==
    [NoCall EXCEPT !.op = "training_step", !.err = "KeyError",
                   !.batch = train_batch, !.training = self.training]

\* a slip: the metric is logged before the loss of the batch is computed
training_step_log_first(self, train_batch) ==
    IF ~has_data(train_batch)
    THEN missing_data(self, train_batch)
    ELSE LET x == train_batch["data"]
             loss_kwargs == get_loss_kwargs(train_batch)
             x_hat == encode_decode(self, Input(x))
             x_ref == get_x_ref(train_batch, x)
             loss == MSELoss(x_hat.val, x_ref, loss_kwargs)
         IN  [op |-> "training_step", err |-> "none", batch |-> train_batch,
              x |-> x, x_hat |-> x_hat.val, x_ref |-> x_ref,
              loss_kwargs |-> loss_kwargs, loss |-> loss,
              emitted |-> <<[name |-> metric_name(self.training), value |-> 0]>>,
              returned |-> TRUE, ret |-> loss,
              trace |-> <<"get_data">> \o x_hat.trace \o <<"log", "loss_fn", "return">>,
              training |-> self.training]

\* AutoEncoderCV.training_step(train_batch, batch_idx)
training_step(self, train_batch) ==
    IF ~has_data(train_batch)
    THEN missing_data(self, train_batch)
    ELSE LET x == train_batch["data"]
             loss_kwargs == get_loss_kwargs(train_batch)
             x_hat == encode_decode(self, Input(x))
             x_ref == get_x_ref(train_batch, x)
             loss == MSELoss(x_hat.val, x_ref, loss_kwargs)
             name == metric_name(self.training)
         IN  [op |-> "training_step", err |-> "none", batch |-> train_batch,
              x |-> x, x_hat |-> x_hat.val, x_ref |-> x_ref,
              loss_kwargs |-> loss_kwargs, loss |-> loss,
              emitted |-> <<[name |-> name, value |-> loss]>>,
              returned |-> TRUE, ret |-> loss,
              trace |-> <<"get_data">> \o x_hat.trace \o <<"loss_fn", "log", "return">>,
              training |-> self.training]

(* ------------------------------- state --------------------------------- *)

VARIABLES
    phase,      \* "new": no instance yet; "ready": constructed; "failed": __init__ raised
    args,       \* the arguments __init__ was called with
    model,      \* the attributes of the instance
    built,      \* the sub-modules constructed by __init__, in order
    err,        \* the exception of the last call, "none" if it returned
    logged,     \* the metric names the logging sink has received
    last        \* the record of the last call on the instance

vars == <<phase, args, model, built, err, logged, last>>

(* ------------------------------- inputs -------------------------------- *)

\* lists of widths of length lo..hi
LayerLists(lo, hi) == UNION {[1..n -> Widths] : n \in lo..hi}

\* decoder_layers: absent, or an explicit two-layer decoder
DecoderArgs == {NoLayers} \cup {LayerList(l) : l \in LayerLists(2, 2)}

\* the values an options entry takes in the notebook, with an empty dict
EntryValues ==
    {NoneV, FalseV, DictV({}), DictV({<<"activation", "relu">>}), DictV({<<"lr", "1e-3">>})}

\* the keys of an options dict: the blocks, the optimizer and a name that is neither
OptionKeys == AllowedKeys \cup {"bogus"}

\* options: None, or a dict of at most MaxEntries entries
AllOptions ==
    {NoOptions} \cup
    {OptionsDict(d) : d \in UNION {[S -> EntryValues] :
                                      S \in {T \in SUBSET OptionKeys : Cardinality(T) <= MaxEntries}}}

\* the options the notebook itself constructs a model with
NotebookOptions ==
    {NoOptions,
     OptionsDict([k \in {"encoder"} |-> DictV({<<"activation", "relu">>})]),
     OptionsDict([k \in {"norm_in"} |-> NoneV]),
     OptionsDict([k \in {"norm_in"} |-> FalseV]),
     OptionsDict([k \in {"norm_in", "encoder", "optimizer"} |->
                     CASE k = "norm_in" -> NoneV
                       [] k = "encoder" -> DictV({<<"activation", "relu">>})
                       [] OTHER -> DictV({<<"lr", "1e-3">>})])}

\* **kwargs: the pre- and post-processing handed on to BaseCV
AllKwargs == [preprocessing : {"None", "Module"}, postprocessing : {"None", "Module"}]

Arguments(layers, decoders, options, kwargs) ==
    [encoder_layers : layers, decoder_layers : decoders, options : options, kwargs : kwargs]

\* every constructor call within the bounds
AllArgs == Arguments(LayerLists(0, MaxLayers), DecoderArgs, AllOptions, AllKwargs)

\* the constructor calls of a run: encoders of at least two layers, the
\* default decoder, the notebook's options
RunArgs == Arguments(LayerLists(2, MaxRunLayers), {NoLayers}, NotebookOptions, AllKwargs)

NoArgs ==
    [encoder_layers |-> <<>>, decoder_layers |-> NoLayers,
     options |-> NoOptions, kwargs |-> NoKwargs]

\* the batches of a data loader: any subset of the keys
Batches ==
    {b \in UNION {[S -> Samples \cup Weights] : S \in SUBSET BatchKeys} :
        /\ "data" \in DOMAIN b => b["data"] \in Samples
        /\ "target" \in DOMAIN b => b["target"] \in Samples
        /\ "weights" \in DOMAIN b => b["weights"] \in Weights}

(* ------------------------------ actions -------------------------------- *)

Init ==
    /\ phase = "new"
    /\ args = NoArgs
    /\ model = NoModel
    /\ built = <<>>
    /\ err = "none"
    /\ logged = {}
    /\ last = NoCall

\* model = AutoEncoderCV(encoder_layers, decoder_layers, options, **kwargs)
New(argset) ==
    /\ phase = "new"
    /\ \E a \in argset :
         LET r == AutoEncoderCV_init(a.encoder_layers, a.decoder_layers,
                                     a.options, a.kwargs)
         IN  /\ args' = a
             /\ err' = r.err
             /\ built' = r.built
             /\ model' = r.self
             /\ phase' = IF r.err = "none" THEN "ready" ELSE "failed"
    /\ UNCHANGED <<logged, last>>

Construct == New(RunArgs)

ConstructAny == New(AllArgs)

\* a slip: a model without normalizer gets one on its first step
Call_training_step_lazy_norm ==
    /\ phase = "ready"
    /\ \E b \in Batches :
         LET r == training_step(model, b)
         IN  /\ last' = r
             /\ err' = r.err
             /\ logged' = logged \cup {r.emitted[i].name : i \in DOMAIN r.emitted}
    /\ model' = IF model.norm_in = Unbound
                THEN [model EXCEPT !.norm_in = Normalization(model.in_features, {})]
                ELSE model
    /\ UNCHANGED <<phase, args, built>>

\* the trainer calls training_step (validation_step is the same function)
Call_training_step ==
    /\ phase = "ready"
    /\ \E b \in Batches :
         LET r == training_step(model, b)
         IN  /\ last' = r
             /\ err' = r.err
             /\ logged' = logged \cup {r.emitted[i].name : i \in DOMAIN r.emitted}
    /\ UNCHANGED <<phase, args, model, built>>

\* a call of forward_cv, forward (model(x)) or encode_decode from outside
CallRecord(op, x, out) ==
    [NoCall EXCEPT !.op = op, !.x = x, !.x_hat = out.val, !.trace = out.trace,
                   !.returned = TRUE, !.ret = out.val, !.training = model.training]

Call_forward_cv ==
    /\ phase = "ready"
    /\ \E x \in Samples : last' = CallRecord("forward_cv", x, forward_cv(model, Input(x)))
    /\ err' = "none"
    /\ UNCHANGED <<phase, args, model, built, logged>>

Call_forward ==
    /\ phase = "ready"
    /\ \E x \in Samples : last' = CallRecord("forward", x, forward(model, Input(x)))
    /\ err' = "none"
    /\ UNCHANGED <<phase, args, model, built, logged>>

Call_encode_decode ==
    /\ phase = "ready"
    /\ \E x \in Samples :
         last' = CallRecord("encode_decode", x, encode_decode(model, Input(x)))
    /\ err' = "none"
    /\ UNCHANGED <<phase, args, model, built, logged>>

\* model.train()
Train ==
    /\ phase = "ready"
    /\ ~model.training
    /\ model' = [model EXCEPT !.training = TRUE]
    /\ UNCHANGED <<phase, args, built, err, logged, last>>

\* model.eval()
Eval ==
    /\ phase = "ready"
    /\ model.training
    /\ model' = [model EXCEPT !.training = FALSE]
    /\ UNCHANGED <<phase, args, built, err, logged, last>>

Next ==
    \/ Construct
    \/ Call_training_step
    \/ Call_forward_cv
    \/ Call_forward
    \/ Call_encode_decode
    \/ Train
    \/ Eval

\* the life of one instance
Spec == Init /\ [][Next]_vars

\* construction alone, over every constructor call within the bounds
SpecInit == Init /\ [][ConstructAny]_vars

(* ------------------------------- claims -------------------------------- *)

\* the last call was a training_step that ran to its return statement
StepCompleted == last.op = "training_step" /\ last.err = "none"

Constructed == phase = "ready"

RangeOf(seq) == {seq[i] : i \in DOMAIN seq}

\* the options handed to the constructor set the entry of role to None or False
RoleDisabled(role) ==
    /\ args.options.tag = "dict"
    /\ role \in DOMAIN args.options.d
    /\ args.options.d[role].tag \in {"None", "False"}

\* the options handed to the constructor hold an unknown block or option name
HasUnknownEntry ==
    /\ args.options.tag = "dict"
    /\ \E k \in DOMAIN args.options.d :
          \/ k \notin AllowedKeys
          \/ /\ args.options.d[k].tag = "dict"
             /\ \E p \in args.options.d[k].kw : p[1] \notin KnownOptions(k)

\* C1: in a completed training_step the reference handed to the loss is the
\* batch's 'target' when the batch has that key and the batch's 'data'
\* otherwise, whether or not the batch has 'weights'.
C1_ReferenceIsTargetElseData ==
    StepCompleted =>
        /\ "target" \in DOMAIN last.batch => last.x_ref = last.batch["target"]
        /\ "target" \notin DOMAIN last.batch => last.x_ref = last.batch["data"]

\* a weighted batch whose target differs from its data was stepped on
C1_Witness ==
    /\ StepCompleted
    /\ {"target", "weights"} \subseteq DOMAIN last.batch
    /\ last.batch["target"] # last.batch["data"]
    /\ last.x_ref = last.batch["target"]

\* C2: constructed from encoder widths of length >= 2 and no decoder widths,
\* the decoder has the encoder widths in reverse order, position by position,
\* so that reversing the decoder widths gives the encoder widths back.
C2_DefaultDecoderIsReversedEncoder ==
    (Constructed /\ args.decoder_layers.tag = "None" /\ Len(args.encoder_layers) >= 2) =>
        LET enc == args.encoder_layers
            dec == model.decoder.layers
        IN  /\ model.decoder.kind = "FeedForward"
            /\ Len(dec) = Len(enc)
            /\ \A i \in 1..Len(enc) : dec[i] = enc[Len(enc) + 1 - i]
            /\ \A i \in 1..Len(enc) : enc[i] = dec[Len(dec) + 1 - i]

\* a three-layer encoder that is no palindrome got its default decoder
C2_Witness ==
    /\ Constructed
    /\ args.decoder_layers.tag = "None"
    /\ Len(args.encoder_layers) = 3
    /\ args.encoder_layers[1] # args.encoder_layers[3]
    /\ model.decoder.layers[1] = args.encoder_layers[3]

\* C3: a training_step on a batch with 'data' completes and emits exactly one
\* metric, named 'train_loss' if the model was in training mode at the call
\* and 'valid_loss' if it was in evaluation mode; the sink never receives
\* any other name.
C3_OneMetricNamedByMode ==
    /\ logged \subseteq {"train_loss", "valid_loss"}
    /\ (last.op = "training_step" /\ "data" \in DOMAIN last.batch) =>
          /\ StepCompleted
          /\ Len(last.emitted) = 1
          /\ last.training => last.emitted[1].name = "train_loss"
          /\ ~last.training => last.emitted[1].name = "valid_loss"
          /\ last.emitted[1].name \in logged

\* after steps in both modes, the last one in evaluation mode
C3_Witness ==
    /\ StepCompleted
    /\ ~last.training
    /\ last.emitted = <<[name |-> "valid_loss", value |-> last.loss]>>
    /\ logged = {"train_loss", "valid_loss"}

\* C4: a training_step on a batch without 'data' raises the missing-key error
\* (Python's KeyError) at once: nothing is emitted, nothing is returned, no
\* stage of the model runs and nothing is tried again, and the instance, its
\* blocks and its configuration are what they were.
C4_MissingDataFailsCleanly ==
    [][ ( /\ last'.op = "training_step"
          /\ "data" \notin DOMAIN last'.batch
          /\ model'.training = model.training )
        => ( /\ last'.err = "KeyError"
             /\ err' = "KeyError"
             /\ last'.emitted = <<>>
             /\ ~last'.returned
             /\ last'.trace = <<>>
             /\ logged' = logged
             /\ model' = model
             /\ <<phase, args, built>>' = <<phase, args, built>> ) ]_vars

\* a batch with weights and a target but no data was refused after a good step
C4_Witness ==
    /\ Constructed
    /\ last.op = "training_step"
    /\ err = "KeyError"
    /\ DOMAIN last.batch = {"weights", "target"}
    /\ logged # {}

\* C5: constructed with options['norm_in'] None or False, the model has no
\* normalizer, forward_cv of any input is the encoder applied to that input,
\* and training steps and forward calls (in either mode) complete.
C5_DisabledNormalizerProjectsByEncoderAlone ==
    (Constructed /\ RoleDisabled("norm_in")) =>
        /\ model.norm_in = Unbound
        /\ "norm_in" \notin RangeOf(built)
        /\ \A x \in Tensor :
              forward_cv(model, Input(x)).val = FeedForwardForward(model.encoder, x)
        /\ last.op = "forward_cv" =>
              last.ret = FeedForwardForward(model.encoder, last.x)
        /\ (last.op = "training_step" /\ "data" \in DOMAIN last.batch) =>
              (last.err = "none" /\ last.returned)
        /\ last.op \in {"forward_cv", "forward", "encode_decode"} =>
              (last.err = "none" /\ last.returned)

\* the run of the notebook's test with norm_in False: trained, then evaluated
C5_Witness ==
    /\ Constructed
    /\ args.options.tag = "dict"
    /\ "norm_in" \in DOMAIN args.options.d
    /\ args.options.d["norm_in"] = FalseV
    /\ "train_loss" \in logged
    /\ ~model.training
    /\ last.op = "forward"
    /\ last.returned

\* C6 (as claimed): whenever the options hold an unknown block or option name,
\* construction fails with ConfigurationError before any sub-module is built.
C6_UnknownEntryIsConfigurationError ==
    (phase # "new" /\ HasUnknownEntry) =>
        /\ phase = "failed"
        /\ err = "ConfigurationError"
        /\ built = <<>>

\* C7 (as claimed): whenever the encoder width list has fewer than 2 entries,
\* construction fails with ConfigurationError and no normalizer, encoder or
\* decoder is built.
C7_ShortEncoderIsConfigurationError ==
    (phase # "new" /\ Len(args.encoder_layers) < 2) =>
        /\ phase = "failed"
        /\ err = "ConfigurationError"
        /\ built = <<>>
        /\ \A role \in BlockNames : model[role] = Unbound

\* C8 (as claimed): with otherwise valid arguments, an entry None or False for
\* any of the three roles leaves that role unbound in a model whose
\* construction succeeds, and no role is ever built more than once.
C8_DisabledRoleIsSkipped ==
    /\ \A role \in BlockNames :
          Cardinality({i \in DOMAIN built : built[i] = role}) <= 1
    /\ \A role \in BlockNames :
          ( /\ phase # "new"
            /\ Len(args.encoder_layers) >= 2
            /\ ~HasUnknownEntry
            /\ RoleDisabled(role) )
          => ( /\ phase = "ready"
               /\ model[role] = Unbound
               /\ role \notin RangeOf(built) )

IsPipelineStage(name) == name \in {"norm_in", "encoder", "decoder", "norm_in.inverse"}

\* the stages in the order the claim gives them, applied to x by hand
ReconstructionOf(x) ==
    LET a == IF model.preprocessing # "None" THEN PreprocessingForward(x) ELSE x
        b == IF model.norm_in # Unbound THEN NormalizationForward(model.norm_in, a) ELSE a
        c == FeedForwardForward(model.encoder, b)
        d == IF model.postprocessing # "None" THEN PostprocessingForward(c) ELSE c
        e == FeedForwardForward(model.decoder, d)
    IN  IF model.norm_in # Unbound THEN NormalizationInverse(model.norm_in, e) ELSE e

\* C9: encode_decode (called directly or by training_step) applies normalizer,
\* encoder, decoder, inverse normalizer in this order, the normalizer and its
\* inverse both exactly when a normalizer is bound; forward_cv and forward
\* never apply the decoder.
C9_ReconstructionStageOrder ==
    /\ (last.op = "encode_decode" \/ StepCompleted) =>
          /\ SelectSeq(last.trace, IsPipelineStage) =
                IF model.norm_in # Unbound
                THEN <<"norm_in", "encoder", "decoder", "norm_in.inverse">>
                ELSE <<"encoder", "decoder">>
          /\ last.x_hat = ReconstructionOf(last.x)
    /\ last.op \in {"forward_cv", "forward"} =>
          /\ "decoder" \notin RangeOf(last.trace)
          /\ "norm_in.inverse" \notin RangeOf(last.trace)
          /\ last.trace[Len(last.trace)] \in {"encoder", "postprocessing"}

\* a reconstruction through all four stages, without pre- or post-processing
C9_Witness ==
    /\ last.op = "encode_decode"
    /\ model.norm_in # Unbound
    /\ last.trace = <<"norm_in", "encoder", "decoder", "norm_in.inverse">>

\* C10: in a completed training_step the loss gets a 'weights' argument
\* exactly when the batch has the key 'weights', and then the batch's entry;
\* without it the loss is computed from reconstruction and reference alone.
C10_WeightsForwardedIffPresent ==
    StepCompleted =>
        /\ DOMAIN last.loss_kwargs \subseteq {"weights"}
        /\ "weights" \in DOMAIN last.loss_kwargs <=> "weights" \in DOMAIN last.batch
        /\ "weights" \in DOMAIN last.batch =>
              /\ last.loss_kwargs["weights"] = last.batch["weights"]
              /\ last.loss = last.batch["weights"] * (last.x_hat - last.x_ref)
                                                   * (last.x_hat - last.x_ref)
        /\ "weights" \notin DOMAIN last.batch =>
              last.loss = (last.x_hat - last.x_ref) * (last.x_hat - last.x_ref)

\* a weighted batch whose reconstruction misses the reference
C10_Witness ==
    /\ StepCompleted
    /\ "weights" \in DOMAIN last.batch
    /\ last.loss_kwargs["weights"] = last.batch["weights"]
    /\ last.x_hat # last.x_ref
    /\ last.loss > (last.x_hat - last.x_ref) * (last.x_hat - last.x_ref)

\* the options handed to the constructor carry an 'optimizer' entry
OptimizerGiven == args.options.tag = "dict" /\ "optimizer" \in DOMAIN args.options.d

\* the keyword arguments the options hold for a role ({} for a missing entry)
EntryKwargs(role) ==
    IF args.options.tag = "dict" /\ role \in DOMAIN args.options.d
    THEN args.options.d[role].kw
    ELSE {}

\* C11: an 'optimizer' entry next to the block entries is accepted: with
\* arguments that are valid otherwise construction succeeds, every block is
\* built with the keyword arguments of its own entry only, and nothing of
\* the optimizer's sub-configuration reaches a block.
C11_OptimizerEntryAcceptedAndKeptFromBlocks ==
    ( /\ phase # "new"
      /\ OptimizerGiven
      /\ Len(args.encoder_layers) >= 1
      /\ ~HasUnknownEntry
      /\ ~RoleDisabled("encoder")
      /\ ~RoleDisabled("decoder") )
    => ( /\ phase = "ready"
         /\ err = "none"
         /\ \A role \in BlockNames :
               /\ model[role].kwargs = EntryKwargs(role)
               /\ model[role].kwargs \cap EntryKwargs("optimizer") = {}
         /\ RangeOf(built) \subseteq BlockNames )

\* an encoder with its own option, built next to an optimizer entry
C11_Witness ==
    /\ Constructed
    /\ OptimizerGiven
    /\ args.options.d["optimizer"] = DictV({<<"lr", "1e-3">>})
    /\ "encoder" \in DOMAIN args.options.d
    /\ model.encoder.kwargs = {<<"activation", "relu">>}

\* the configuration of the instance and the binding of its roles
Configuration(m) == [m EXCEPT !.training = TRUE]

\* C12: once constructed, no call changes the arguments the model was built
\* from, its configuration or the sub-module bound to any role; a
\* training_step changes nothing outside its return value but the sink,
\* which gets the emitted metric, and the forward calls change nothing.
C12_CallsLeaveConstructionUnchanged ==
    [][ Constructed =>
          /\ <<phase, args, built>>' = <<phase, args, built>>
          /\ Configuration(model') = Configuration(model)
          /\ \A role \in BlockNames : model'[role] = model[role]
          /\ (last'.op = "training_step" /\ model'.training = model.training) =>
                /\ model' = model
                /\ Len(last'.emitted) <= 1
                /\ logged' = logged \cup {last'.emitted[i].name : i \in DOMAIN last'.emitted}
          /\ (last'.op \in {"forward_cv", "forward", "encode_decode"}
                 /\ model'.training = model.training) =>
                /\ model' = model
                /\ logged' = logged ]_vars

\* a model without normalizer after steps in both modes and a forward call
C12_Witness ==
    /\ Constructed
    /\ model.norm_in = Unbound
    /\ built = <<"encoder", "decoder">>
    /\ logged = {"train_loss", "valid_loss"}
    /\ last.op = "encode_decode"

\* C13: the normalizer is built exactly when its entry is neither None nor
\* False: a missing entry and an empty dict both give a Normalization sized
\* to the first encoder width, built with the entry's keyword arguments.
C13_NormalizerBuiltUnlessNoneOrFalse ==
    /\ (phase # "new" /\ err \notin {"IndexError", "ConfigurationError"}) =>
          ("norm_in" \in RangeOf(built) <=> ~RoleDisabled("norm_in"))
    /\ Constructed =>
          /\ model.norm_in # Unbound <=> ~RoleDisabled("norm_in")
          /\ model.norm_in # Unbound =>
                /\ model.norm_in.kind = "Normalization"
                /\ model.norm_in.in_features = args.encoder_layers[1]
                /\ model.norm_in.kwargs = EntryKwargs("norm_in")

\* an explicit empty dict for norm_in, on an encoder that narrows
C13_Witness ==
    /\ Constructed
    /\ args.options.tag = "dict"
    /\ "norm_in" \in DOMAIN args.options.d
    /\ args.options.d["norm_in"] = DictV({})
    /\ args.encoder_layers[1] # args.encoder_layers[Len(args.encoder_layers)]
    /\ model.norm_in = Normalization(args.encoder_layers[1], {})

\* the positions of an event in the trace of the last call
PositionsOf(event) == {i \in DOMAIN last.trace : last.trace[i] = event}

\* C14: a completed training_step reads 'data', then runs the stages of the
\* reconstruction, then computes the loss, then emits the metric, then
\* returns, each once and in this order; the value emitted is the loss just
\* computed and is the value returned.
C14_StepOrderAndEmittedValue ==
    StepCompleted =>
        LET n == Len(last.trace)
        IN  /\ n >= 6
            /\ PositionsOf("get_data") = {1}
            /\ PositionsOf("loss_fn") = {n - 2}
            /\ PositionsOf("log") = {n - 1}
            /\ PositionsOf("return") = {n}
            /\ \A i \in 2..(n - 3) : IsPipelineStage(last.trace[i])
                                      \/ last.trace[i] \in {"preprocessing", "postprocessing"}
            /\ PositionsOf("encoder") # {} /\ PositionsOf("decoder") # {}
            /\ last.returned
            /\ Len(last.emitted) = 1
            /\ last.emitted[1].value = last.loss
            /\ last.emitted[1].value = last.ret
            /\ last.loss = MSELoss(last.x_hat, last.x_ref, last.loss_kwargs)

\* a step with a positive loss: the value returned is the value in the sink's record
C14_Witness ==
    /\ StepCompleted
    /\ last.ret > 0
    /\ last.emitted = <<[name |-> "train_loss", value |-> last.ret]>>
    /\ last.trace[Len(last.trace)] = "return"

\* the decoder, then the inverse normalizer if a normalizer is bound, on a latent value
DecodedFrom(z) ==
    LET d == FeedForwardForward(model.decoder, z.val)
    IN  [val |-> IF model.norm_in # Unbound
                 THEN NormalizationInverse(model.norm_in, d)
                 ELSE d,
         trace |-> z.trace \o <<"decoder">> \o
                   (IF model.norm_in # Unbound THEN <<"norm_in.inverse">> ELSE <<>>)]

NoProcessing == model.preprocessing = "None" /\ model.postprocessing = "None"

\* C15: encode_decode takes its latent value from forward, that is from
\* forward_cv wrapped in the pre- and post-processing: for every input it is
\* the decoder (and the inverse normalizer, if a normalizer is bound) applied
\* to forward(x); it is the same applied to forward_cv(x), in the stages run
\* and in the value for every input, exactly when neither pre- nor
\* post-processing is set (the processing modules being no identity maps).
C15_ReconstructionGoesThroughForward ==
    Constructed =>
        /\ \A x \in Tensor :
              encode_decode(model, Input(x)) = DecodedFrom(forward(model, Input(x)))
        /\ NoProcessing <=>
              \A x \in Tensor :
                 encode_decode(model, Input(x)).val = DecodedFrom(forward_cv(model, Input(x))).val
        /\ NoProcessing <=>
              \A x \in Tensor :
                 encode_decode(model, Input(x)).trace = DecodedFrom(forward_cv(model, Input(x))).trace
        /\ last.op = "encode_decode" =>
              /\ last.x_hat = DecodedFrom(forward(model, Input(last.x))).val
              /\ last.trace = DecodedFrom(forward(model, Input(last.x))).trace

\* a reconstruction with both processings set that differs from the decoded forward_cv
C15_Witness ==
    /\ last.op = "encode_decode"
    /\ model.preprocessing # "None"
    /\ model.postprocessing # "None"
    /\ model.norm_in # Unbound
    /\ last.trace = <<"preprocessing", "norm_in", "encoder", "postprocessing",
                      "decoder", "norm_in.inverse">>
    /\ last.x_hat # DecodedFrom(forward_cv(model, Input(last.x))).val

====
